---- MODULE Spec2Model ----
(***************************************************************************)
(* tinydaw (src/tinydaw.py): the Channel class (assign_file, assign_key,   *)
(* toggle_mode, adjust_volume, trigger, update) and the key/tick loop of   *)
(* main(), over a model of the pygame mixer the code plays through.        *)
(*                                                                         *)
(* Representation.                                                         *)
(*  - Levels (volume, vu_level, the meter target) are fixed point: the     *)
(*    float 1.0 is Scale units, products and sums are rounded down.        *)
(*  - Times are quarters of a second; GATE_THRESHOLD = 0.5 s is 2.         *)
(*  - A path is the sequence of its components; "" is <<>>.                *)
(*  - A pygame Sound object is <<channel index, load number>>: every       *)
(*    successful assign_file creates a new Sound object.                   *)
(*  - A pygame mixer Channel handle is the index of its voice.             *)
(*  - assigned_char, status_msg and drawing are display only and left out. *)
(***************************************************************************)
EXTENDS Integers, Sequences, FiniteSets, TLC

\* ---------------------------------------------------------------- bounds
NumChannels == 2
NumVoices == 2
MaxTracked == 2
MaxTime == 4
MaxLoads == 1
Scale == 200

\* ------------------------------------------------------------- constants
GATE_THRESHOLD == 2

Channels == 0 .. (NumChannels - 1)
Voices == 0 .. (NumVoices - 1)

NoSound == 0
NoVoice == 0 - 1
NoKey == "None"
NoPath == <<>>
Free == <<>>

\* class TriggerMode(Enum): list(TriggerMode) is in definition order.
TriggerMode == <<"ONESHOT", "GATE", "RETRIGGER">>

\* class Mode(Enum)
Mode == {"VIEW_MIXER", "VIEW_METERS", "CHANNEL_ASSIGN"}

\* random.uniform(0.9, 1.0), in hundredths.
JitterSet == {90, 95, 100}

\* The paths a user can type: none, one that does not exist, one that exists
\* but that pygame cannot decode, and a sample in a directory.
Missing == <<"missing.wav">>
Corrupt == <<"corrupt.wav">>
Kick == <<"samples", "kick.wav">>
Paths == {NoPath, Missing, Corrupt, Kick}

VARIABLES
  channels,       \* main: channels = [Channel(i) for i in range(MAX_CHANNELS)]
  voices,         \* the mixer: voice -> the Sound object it is playing, or Free
  now,            \* time.time()
  AUDIO_ENABLED,  \* whether pygame was imported
  current_mode,   \* main: current_mode
  selected_idx,   \* main: selected_idx
  pc,             \* main: position in the loop body
  key,            \* main: key returned by getch()
  last            \* the last operation and the sink calls it made

vars == <<channels, voices, now, AUDIO_ENABLED, current_mode, selected_idx, pc, key, last>>

\* ------------------------------------------------------------------ sink
\* os.path.exists(path)
exists(path) == path \in {Corrupt, Kick}

\* pygame.mixer.Sound(path) raises for a file it cannot decode.
Decodes(path) == path = Kick

\* os.path.basename(path)
basename(path) == path[Len(path)]

\* Channel.get_busy()
get_busy(vs, v) == vs[v] # Free

Min(S) == CHOOSE x \in S : \A y \in S : x <= y

\* Sound.play() takes the first free voice of the mixer, None when all are busy.
find_channel(vs) ==
  LET free == {v \in Voices : vs[v] = Free}
  IN IF free = {} THEN NoVoice ELSE Min(free)

\* Sound.play(): the voices afterwards.
play(vs, snd) ==
  LET ch == find_channel(vs)
  IN IF ch = NoVoice THEN vs ELSE [vs EXCEPT ![ch] = snd]

\* Sound.stop(): stops every voice playing this Sound object.
stop(vs, snd) == [v \in Voices |-> IF vs[v] = snd THEN Free ELSE vs[v]]

\* --------------------------------------------------------------- Channel
\* Channel.__init__
Channel(index) ==
  [ file_path |-> NoPath,
    assigned_key |-> NoKey,
    sound |-> NoSound,
    name |-> "Empty",
    trigger_mode |-> "ONESHOT",
    volume |-> Scale,
    last_triggered_time |-> 0,
    is_gated_playing |-> FALSE,
    playing_channels |-> <<>>,
    vu_level |-> 0 ]

\* The Sound object a channel holds.
SoundOf(c, self) == <<c, self.sound>>

\* Channel.assign_file: the message returned.
assign_file_msg(path, audio) ==
  IF path = NoPath THEN "No path provided"
  ELSE IF ~exists(path) THEN "File not found"
  ELSE IF audio /\ ~Decodes(path) THEN "Audio Error"
  ELSE "assigned"

\* Mutant of assign_file: the path and the name are stored before the checks.
assign_file_eager(self, path, audio) ==
  IF assign_file_msg(path, audio) # "assigned"
    THEN IF path = NoPath THEN self
         ELSE [self EXCEPT !.file_path = path, !.name = basename(path)]
  ELSE [self EXCEPT !.sound = IF audio THEN @ + 1 ELSE @,
                    !.file_path = path,
                    !.name = basename(path)]

\* Channel.assign_file: the channel afterwards.
assign_file(self, path, audio) ==
  IF assign_file_msg(path, audio) # "assigned" THEN self
  ELSE [self EXCEPT !.sound = IF audio THEN @ + 1 ELSE @,
                    !.file_path = path,
                    !.name = basename(path)]

\* Channel.assign_key
assign_key(self, k) == [self EXCEPT !.assigned_key = k]

IndexOf(seq, x) == CHOOSE i \in 1 .. Len(seq) : seq[i] = x

\* Mutant of next_mode: the cycle runs backwards.
next_mode_back(m) == TriggerMode[((IndexOf(TriggerMode, m) - 1 + 2) % Len(TriggerMode)) + 1]

\* Channel.toggle_mode: modes[(modes.index(self.trigger_mode) + 1) % len(modes)]
next_mode(m) == TriggerMode[((IndexOf(TriggerMode, m) - 1 + 1) % Len(TriggerMode)) + 1]

\* Mutant of clear_gate: the flag survives the mode change.
keep_gate(gated) == gated

\* Channel.toggle_mode: if self.is_gated_playing: self.is_gated_playing = False
\* (the sound is not stopped: the stop call is commented out)
clear_gate(gated) == IF gated THEN FALSE ELSE gated

\* Mutant of toggle_mode: the mode changes and the gate flag is left alone.
toggle_mode_keeps_flag(self) == [self EXCEPT !.trigger_mode = next_mode(@)]

\* Channel.toggle_mode
toggle_mode(self) ==
  [self EXCEPT !.is_gated_playing = clear_gate(@),
               !.trigger_mode = next_mode(@)]

Max2(a, b) == IF a >= b THEN a ELSE b
Min2(a, b) == IF a <= b THEN a ELSE b

\* Mutant of clamp_volume: the lower clamp is missing.
clamp_volume_top(v) == Min2(Scale, v)

\* Channel.adjust_volume: max(0.0, min(1.0, self.volume + delta))
clamp_volume(v) == Max2(0, Min2(Scale, v))

\* Channel.adjust_volume (sound.set_volume only sets the gain of the sink)
adjust_volume(self, delta) == [self EXCEPT !.volume = clamp_volume(@ + delta)]

\* What a Channel method returns here: the channel and the mixer afterwards, and
\* whether it called sound.stop() and sound.play().
Outcome(self, vs, stopped, played) ==
  [self |-> self, vs |-> vs, stop |-> stopped, play |-> played]

\* Mutant of track: a handle is appended even when play() returned None.
track_always(self, ch) ==
  [self EXCEPT !.playing_channels = Append(@, IF ch # NoVoice THEN ch ELSE 0)]

\* Channel.trigger: if ch: self.playing_channels.append(ch)
track(self, ch) ==
  IF ch # NoVoice THEN [self EXCEPT !.playing_channels = Append(@, ch)] ELSE self

\* Mutant of trigger_oneshot: the sound is stopped before it is played.
trigger_oneshot_stops(c, self, vs) ==
  LET vs1 == stop(vs, SoundOf(c, self))
  IN Outcome(track(self, find_channel(vs1)), play(vs1, SoundOf(c, self)), TRUE, TRUE)

\* Channel.trigger, ONESHOT: ch = self.sound.play()
trigger_oneshot(c, self, vs) ==
  Outcome(track(self, find_channel(vs)), play(vs, SoundOf(c, self)), FALSE, TRUE)

\* Channel.trigger, RETRIGGER: self.sound.stop(); ch = self.sound.play()
trigger_retrigger(c, self, vs) ==
  LET vs1 == stop(vs, SoundOf(c, self))
  IN Outcome(track(self, find_channel(vs1)), play(vs1, SoundOf(c, self)), TRUE, TRUE)

\* Mutant of trigger_gate: a trigger of a sustaining gate does not refresh it.
trigger_gate_stale(c, self, vs, t) ==
  IF ~self.is_gated_playing
    THEN Outcome([self EXCEPT !.last_triggered_time = t, !.is_gated_playing = TRUE],
                 play(vs, SoundOf(c, self)), FALSE, TRUE)
    ELSE Outcome(self, vs, FALSE, FALSE)

\* Channel.trigger, GATE: the handle play() returns is not kept.
trigger_gate(c, self, vs, t) ==
  LET s1 == [self EXCEPT !.last_triggered_time = t]
  IN IF ~self.is_gated_playing
       THEN Outcome([s1 EXCEPT !.is_gated_playing = TRUE],
                    play(vs, SoundOf(c, self)), FALSE, TRUE)
       ELSE Outcome(s1, vs, FALSE, FALSE)

\* Mutant of trigger: the check for a loaded sound is missing.
trigger_unguarded(c, self, vs, t) ==
  IF self.trigger_mode = "ONESHOT" THEN trigger_oneshot(c, self, vs)
  ELSE IF self.trigger_mode = "RETRIGGER" THEN trigger_retrigger(c, self, vs)
  ELSE trigger_gate(c, self, vs, t)

\* Channel.trigger, at time t = time.time()
trigger(c, self, vs, t) ==
  IF self.sound = NoSound THEN Outcome(self, vs, FALSE, FALSE)
  ELSE IF self.trigger_mode = "ONESHOT" THEN trigger_oneshot(c, self, vs)
  ELSE IF self.trigger_mode = "RETRIGGER" THEN trigger_retrigger(c, self, vs)
  ELSE trigger_gate(c, self, vs, t)

\* Mutant of gate_expired: the gate expires at the threshold itself.
gate_expired_at(self, t) == t - self.last_triggered_time >= GATE_THRESHOLD

\* Channel.update: time.time() - self.last_triggered_time > GATE_THRESHOLD
gate_expired(self, t) == t - self.last_triggered_time > GATE_THRESHOLD

\* Mutant of update_gate: a gate never expires.
update_gate_idle(c, self, vs, t) == Outcome(self, vs, FALSE, FALSE)

\* Channel.update, 1. Gate Logic
update_gate(c, self, vs, t) ==
  IF self.trigger_mode = "GATE" /\ self.is_gated_playing /\ gate_expired(self, t)
    THEN Outcome([self EXCEPT !.is_gated_playing = FALSE],
                 IF self.sound # NoSound THEN stop(vs, SoundOf(c, self)) ELSE vs,
                 self.sound # NoSound, FALSE)
    ELSE Outcome(self, vs, FALSE, FALSE)

\* Channel.update: [ch for ch in self.playing_channels if ch.get_busy()]
prune(chs, vs) == SelectSeq(chs, LAMBDA ch : get_busy(vs, ch))

\* Channel.update, 2. Visualizer: the voices tracked afterwards (GATE keeps them)
update_voices(self, vs) ==
  IF self.trigger_mode = "GATE" THEN self
  ELSE [self EXCEPT !.playing_channels = prune(@, vs)]

\* Channel.update: is_playing, read after the clean up
is_playing(self) ==
  IF self.trigger_mode = "GATE" THEN self.is_gated_playing
  ELSE self.playing_channels # <<>>

\* Channel.update: target_level = self.volume if is_playing else 0.0, times jitter
target_level(self, jitter) ==
  IF is_playing(self) THEN (self.volume * jitter) \div 100 ELSE 0

\* Mutant of smooth: the attack weights sum to more than 1.
smooth_overshoot(vu, target) ==
  IF target > vu THEN (15 * target + 5 * vu) \div 10
  ELSE (1 * target + 9 * vu) \div 10

\* Channel.update: attack fast (0.5/0.5), decay slow (0.1/0.9)
smooth(vu, target) ==
  IF target > vu THEN (5 * target + 5 * vu) \div 10
  ELSE (1 * target + 9 * vu) \div 10

\* Mutant of snap: the level is never snapped to 0.
no_snap(vu) == vu

\* Channel.update: if self.vu_level < 0.01: self.vu_level = 0.0
snap(vu) == IF vu * 100 < Scale THEN 0 ELSE vu

\* Channel.update, at time t = time.time(), with jitter = random.uniform(0.9, 1.0)
update(c, self, vs, t, jitter) ==
  LET g == update_gate(c, self, vs, t)
      s2 == update_voices(g.self, g.vs)
  IN Outcome([s2 EXCEPT !.vu_level = snap(smooth(@, target_level(s2, jitter)))],
             g.vs, g.stop, FALSE)

\* ------------------------------------------------------------- operations
NoChannel == 0 - 1

\* The record of the last operation: its name, the channel it ran on, the
\* channels whose sound it called stop() and play() on, is_gated_playing of its
\* channel before it ran, and (assign_file) the path given and the message returned.
Log(op, c, stops, plays, gated, path, msg) ==
  [op |-> op, ch |-> c, stop |-> stops, play |-> plays, was_gated |-> gated,
   path |-> path, msg |-> msg]

Only(c, b) == IF b THEN {c} ELSE {}

mainvars == <<current_mode, selected_idx, pc, key>>

\* channels[c].assign_file(path)
AssignFile(c, path) ==
  /\ assign_file_msg(path, AUDIO_ENABLED) = "assigned" /\ AUDIO_ENABLED
       => channels[c].sound < MaxLoads
  /\ channels' = [channels EXCEPT ![c] = assign_file(@, path, AUDIO_ENABLED)]
  /\ last' = Log("assign_file", c, {}, {}, channels[c].is_gated_playing, path,
                 assign_file_msg(path, AUDIO_ENABLED))
  /\ UNCHANGED <<voices, now, AUDIO_ENABLED, mainvars>>

\* channels[c].assign_key(k)
AssignKey(c, k) ==
  /\ channels' = [channels EXCEPT ![c] = assign_key(@, k)]
  /\ last' = Log("assign_key", c, {}, {}, channels[c].is_gated_playing, NoPath, "")
  /\ UNCHANGED <<voices, now, AUDIO_ENABLED, mainvars>>

\* channels[c].toggle_mode()
ToggleMode(c) ==
  /\ channels' = [channels EXCEPT ![c] = toggle_mode(@)]
  /\ last' = Log("toggle_mode", c, {}, {}, channels[c].is_gated_playing, NoPath, "")
  /\ UNCHANGED <<voices, now, AUDIO_ENABLED, mainvars>>

\* channels[c].adjust_volume(delta)
AdjustVolume(c, delta) ==
  /\ channels' = [channels EXCEPT ![c] = adjust_volume(@, delta)]
  /\ last' = Log("adjust_volume", c, {}, {}, channels[c].is_gated_playing, NoPath, "")
  /\ UNCHANGED <<voices, now, AUDIO_ENABLED, mainvars>>

\* channels[c].trigger()
Trigger(c) ==
  LET r == trigger(c, channels[c], voices, now)
  IN /\ Len(channels[c].playing_channels) < MaxTracked
     /\ channels' = [channels EXCEPT ![c] = r.self]
     /\ voices' = r.vs
     /\ last' = Log("trigger", c, Only(c, r.stop), Only(c, r.play),
                    channels[c].is_gated_playing, NoPath, "")
     /\ UNCHANGED <<now, AUDIO_ENABLED, mainvars>>

\* channels[c].update()
Update(c, jitter) ==
  LET r == update(c, channels[c], voices, now, jitter)
  IN /\ channels' = [channels EXCEPT ![c] = r.self]
     /\ voices' = r.vs
     /\ last' = Log("update", c, Only(c, r.stop), {},
                    channels[c].is_gated_playing, NoPath, "")
     /\ UNCHANGED <<now, AUDIO_ENABLED, mainvars>>

\* The clock advances.
Advance ==
  /\ now < MaxTime
  /\ now' = now + 1
  /\ last' = Log("time", NoChannel, {}, {}, FALSE, NoPath, "")
  /\ UNCHANGED <<channels, voices, AUDIO_ENABLED, mainvars>>

\* The mixer plays a voice to its end.
VoiceFinish(v) ==
  /\ get_busy(voices, v)
  /\ voices' = [voices EXCEPT ![v] = Free]
  /\ last' = Log("finish", NoChannel, {}, {}, FALSE, NoPath, "")
  /\ UNCHANGED <<channels, now, AUDIO_ENABLED, mainvars>>

\* ------------------------------------------------------- the trigger engine
\* The channels as constructed, with every fader pulled down
\* (adjust_volume(-1.0)): the meter target is then 0 and the meters stay at rest.
FadersDown == [c \in Channels |-> adjust_volume(Channel(c), 0 - Scale)]

InitMain ==
  /\ current_mode = "VIEW_MIXER"
  /\ selected_idx = 0
  /\ pc = "loop"
  /\ key = NoKey

Init ==
  /\ channels = FadersDown
  /\ voices = [v \in Voices |-> Free]
  /\ now = 1
  /\ AUDIO_ENABLED \in BOOLEAN
  /\ InitMain
  /\ last = Log("init", NoChannel, {}, {}, FALSE, NoPath, "")

\* The Channel object the methods are called on; the others stay as constructed.
UnderTest == {0}

Next ==
  \/ \E c \in UnderTest, path \in Paths : AssignFile(c, path)
  \/ \E c \in UnderTest : ToggleMode(c)
  \/ \E c \in UnderTest : Trigger(c)
  \/ \E c \in UnderTest, jitter \in JitterSet : Update(c, jitter)
  \/ Advance
  \/ \E v \in Voices : VoiceFinish(v)

Spec == Init /\ [][Next]_vars

\* ---------------------------------------------------------------- the meter
\* adjust_volume's deltas: half the range and more than the whole range, both ways.
Deltas == {0 - (3 * Scale) \div 2, 0 - Scale \div 2, Scale \div 2, (3 * Scale) \div 2}

\* The channels as constructed, the one under test after assign_file of a sample.
Loaded ==
  [c \in Channels |->
     IF c \in UnderTest THEN assign_file(Channel(c), Kick, TRUE) ELSE Channel(c)]

MeterInit ==
  /\ channels = Loaded
  /\ voices = [v \in Voices |-> Free]
  /\ now = 1
  /\ AUDIO_ENABLED = TRUE
  /\ InitMain
  /\ last = Log("init", NoChannel, {}, {}, FALSE, NoPath, "")

\* The meter is driven by pads hit while the channel tracks no voice.
MeterTrigger(c) == channels[c].playing_channels = <<>> /\ Trigger(c)

MeterNext ==
  \/ \E c \in UnderTest : ToggleMode(c)
  \/ \E c \in UnderTest : MeterTrigger(c)
  \/ \E c \in UnderTest, jitter \in JitterSet : Update(c, jitter)
  \/ \E c \in UnderTest, delta \in Deltas : AdjustVolume(c, delta)
  \/ \E v \in Voices : VoiceFinish(v)

MeterSpec == MeterInit /\ [][MeterNext]_vars

\* ----------------------------------------------------------------- the gate
\* channels[c].assign_file(path) on a channel that already holds a sound: the
\* user loads a file into a pad in use.
Reassign(c, path) ==
  /\ channels[c].sound # NoSound
  /\ assign_file_msg(path, AUDIO_ENABLED) = "assigned" /\ AUDIO_ENABLED
       => channels[c].sound <= MaxLoads
  /\ channels' = [channels EXCEPT ![c] = assign_file(@, path, AUDIO_ENABLED)]
  /\ last' = Log("assign_file", c, {}, {}, channels[c].is_gated_playing, path,
                 assign_file_msg(path, AUDIO_ENABLED))
  /\ UNCHANGED <<voices, now, AUDIO_ENABLED, mainvars>>

\* The voices playing any Sound object that channel c has loaded.
VoicesFrom(c, vs) == {v \in Voices : get_busy(vs, v) /\ vs[v][1] = c}

\* channels[c].trigger(), by a pad hit while the gate is sustaining or the
\* channel is silent, early enough for the clock to run past the threshold.
GatePad(c) ==
  /\ channels[c].is_gated_playing \/ VoicesFrom(c, voices) = {}
  /\ now + GATE_THRESHOLD < MaxTime
  /\ Trigger(c)

\* channels[c].adjust_volume(delta), the fader kept between 0 and a level too
\* faint for the meter to show (update() snaps it to 0).
Faint == Scale \div 100
Nudge(c, delta) ==
  /\ channels[c].volume + delta <= Faint
  /\ AdjustVolume(c, delta)

\* The channels with every fader down, the one under test holding a sample.
GateLoaded ==
  [c \in Channels |->
     IF c \in UnderTest THEN assign_file(FadersDown[c], Kick, TRUE) ELSE FadersDown[c]]

GateInit ==
  /\ channels = GateLoaded
  /\ voices = [v \in Voices |-> Free]
  /\ now = 0
  /\ AUDIO_ENABLED = TRUE
  /\ InitMain
  /\ last = Log("init", NoChannel, {}, {}, FALSE, NoPath, "")

GateNext ==
  \/ \E c \in UnderTest : GatePad(c)
  \/ \E c \in UnderTest : ToggleMode(c)
  \/ \E c \in UnderTest, path \in {Missing, Kick} : Reassign(c, path)
  \/ \E c \in UnderTest : AssignKey(c, "a")
  \/ \E c \in UnderTest, delta \in {0 - Faint, Faint} : Nudge(c, delta)
  \/ \E c \in UnderTest : Update(c, 100)
  \/ Advance
  \/ \E v \in Voices : VoiceFinish(v)

\* The main loop keeps running (update() is called on every pass) and the
\* clock keeps advancing.
GateFairness ==
  /\ WF_vars(Advance)
  /\ \A c \in UnderTest : WF_vars(Update(c, 100))

GateSpec == GateInit /\ [][GateNext]_vars /\ GateFairness

\* ------------------------------------------------------------------- main
\* The keys pressed at the main loop's getch(): the pad key, two view keys, the
\* mode key, down (navigation in the assign view, fader down in the mixer) and quit.
KeyInputs == {"a", "KEY_F1", "KEY_F3", "KEY_DOWN", "t", "q"}

\* The keys pressed at the blocking getch() of key assignment.
NewKeys == {"a", "ESC"}

\* main: channels[selected_idx].adjust_volume(0.05)
VolumeStep == Scale \div 20

\* main, mode switching: KEY_F1, KEY_F2, KEY_F3
switch_mode(mode, k) ==
  IF k = "KEY_F1" THEN "VIEW_MIXER"
  ELSE IF k = "KEY_F2" THEN "VIEW_METERS"
  ELSE IF k = "KEY_F3" THEN "CHANNEL_ASSIGN"
  ELSE mode

\* main: elif key in (ord('q'), ord('Q')): break
quits(k) == k \in {"q", "Q"}

\* What a pass over the channels returns: the channels and the mixer afterwards,
\* and the channels whose sound it called stop() and play() on.
Pass(chans, vs, stops, plays) ==
  [chans |-> chans, vs |-> vs, stop |-> stops, play |-> plays]

\* Mutant of update_all: the pass over the channels updates none of them.
update_none(i, chans, vs, t, jitter, stops) == Pass(chans, vs, stops, {})

\* main: for ch in channels: ch.update()
RECURSIVE update_all(_, _, _, _, _, _)
update_all(i, chans, vs, t, jitter, stops) ==
  IF i = NumChannels THEN Pass(chans, vs, stops, {})
  ELSE LET r == update(i, chans[i], vs, t, jitter[i])
       IN update_all(i + 1, [chans EXCEPT ![i] = r.self], r.vs, t, jitter,
                     stops \cup Only(i, r.stop))

\* main, common triggering: if ch.assigned_key == key: ch.trigger()
fires(self, k) == self.assigned_key = k

\* Mutant of dispatch: the loop breaks after the first match.
dispatch_first(i, chans, vs, t, k, stops, plays) ==
  LET match == {c \in Channels : c >= i /\ fires(chans[c], k)}
  IN IF match = {} THEN Pass(chans, vs, stops, plays)
     ELSE LET c == Min(match)
              r == trigger(c, chans[c], vs, t)
          IN Pass([chans EXCEPT ![c] = r.self], r.vs,
                  stops \cup Only(c, r.stop), plays \cup Only(c, r.play))

\* main, common triggering: for ch in channels: ...
RECURSIVE dispatch(_, _, _, _, _, _, _)
dispatch(i, chans, vs, t, k, stops, plays) ==
  IF i = NumChannels THEN Pass(chans, vs, stops, plays)
  ELSE IF fires(chans[i], k)
    THEN LET r == trigger(i, chans[i], vs, t)
         IN dispatch(i + 1, [chans EXCEPT ![i] = r.self], r.vs, t, k,
                     stops \cup Only(i, r.stop), plays \cup Only(i, r.play))
    ELSE dispatch(i + 1, chans, vs, t, k, stops, plays)

\* Mutant of common_triggering: pads fire in every view.
common_triggering_all(mode, chans, vs, t, k) == dispatch(0, chans, vs, t, k, {}, {})

\* main, common triggering: only in the mixer and meter views
common_triggering(mode, chans, vs, t, k) ==
  IF mode \in {"VIEW_MIXER", "VIEW_METERS"}
    THEN dispatch(0, chans, vs, t, k, {}, {})
    ELSE Pass(chans, vs, {}, {})

\* main, mixer and assign controls: selected_idx afterwards
navigate(mode, sel, k) ==
  IF mode = "VIEW_MIXER"
    THEN IF k = "KEY_LEFT" THEN Max2(0, sel - 1)
         ELSE IF k = "KEY_RIGHT" THEN Min2(NumChannels - 1, sel + 1)
         ELSE sel
  ELSE IF mode = "CHANNEL_ASSIGN"
    THEN IF k = "KEY_UP" THEN Max2(0, sel - 1)
         ELSE IF k = "KEY_DOWN" THEN Min2(NumChannels - 1, sel + 1)
         ELSE sel
  ELSE sel

\* main, mixer and assign controls: the selected channel afterwards. path is
\* what get_text_input returned and new_key what the blocking getch() returned.
controls(mode, self, k, path, new_key, audio) ==
  IF mode = "VIEW_MIXER"
    THEN IF k = "KEY_UP" THEN adjust_volume(self, VolumeStep)
         ELSE IF k = "KEY_DOWN" THEN adjust_volume(self, 0 - VolumeStep)
         ELSE self
  ELSE IF mode = "CHANNEL_ASSIGN"
    THEN IF k \in {"f", "F"} THEN assign_file(self, path, audio)
         ELSE IF k \in {"k", "K"}
           THEN IF new_key \notin {"KEY_F1", "KEY_F2", "KEY_F3", "ESC"}
                  THEN assign_key(self, new_key) ELSE self
         ELSE IF k \in {"t", "T"} THEN toggle_mode(self)
         ELSE self
  ELSE self

\* Whether the key handling waits at a prompt (get_text_input, getch).
prompts(mode, k) == mode = "CHANNEL_ASSIGN" /\ k \in {"f", "F", "k", "K"}

\* A pad key is pressed while the pads it fires track no voice.
Room(chans, k) ==
  \A c \in Channels : fires(chans[c], k) => chans[c].playing_channels = <<>>

\* main, top of the loop body: time.sleep(0.01), stdscr.getch(), then
\* ch.update() for every channel. (The key getch() returned is drawn in MainKey,
\* where the loop body first reads it.)
MainTick(dt, jitter) ==
  LET r == update_all(0, channels, voices, now + dt, jitter, {})
  IN /\ pc = "loop"
     /\ now + dt <= MaxTime
     /\ \A c \in Channels : channels[c].volume = 0 => jitter[c] = 100
     /\ now' = now + dt
     /\ key' = NoKey
     /\ channels' = r.chans
     /\ voices' = r.vs
     /\ pc' = "key"
     /\ last' = Log("tick", NoChannel, r.stop, {}, FALSE, NoPath, "")
     /\ UNCHANGED <<AUDIO_ENABLED, current_mode, selected_idx>>

\* main, rest of the loop body, with k the key getch() returned: if key != -1:
\* mode switching or quit, common triggering, mixer or assign controls. A prompt
\* blocks for dt.
MainKey(k, path, new_key, dt) ==
  LET mode == switch_mode(current_mode, k)
      d == common_triggering(mode, channels, voices, now, k)
      waits == prompts(mode, k)
      loads == waits /\ k \in {"f", "F"}
                 /\ assign_file_msg(path, AUDIO_ENABLED) = "assigned" /\ AUDIO_ENABLED
  IN /\ pc = "key"
     /\ ~(waits /\ k \in {"f", "F"}) => path = NoPath
     /\ ~(waits /\ k \in {"k", "K"}) => new_key = "ESC"
     /\ ~waits => dt = 0
     /\ Room(channels, k)
     /\ key' = k
     /\ IF k = NoKey
          THEN /\ pc' = "loop"
               /\ last' = Log("key", NoChannel, {}, {}, FALSE, NoPath, "")
               /\ UNCHANGED <<channels, voices, now, current_mode, selected_idx>>
        ELSE IF quits(k)
          THEN /\ pc' = "done"
               /\ last' = Log("key", NoChannel, {}, {}, FALSE, NoPath, "")
               /\ UNCHANGED <<channels, voices, now, current_mode, selected_idx>>
        ELSE /\ now + dt <= MaxTime
             /\ loads => channels[selected_idx].sound < MaxLoads
             /\ current_mode' = mode
             /\ selected_idx' = navigate(mode, selected_idx, k)
             /\ channels' = [d.chans EXCEPT ![selected_idx] =
                               controls(mode, @, k, path, new_key, AUDIO_ENABLED)]
             /\ voices' = d.vs
             /\ now' = now + dt
             /\ pc' = "loop"
             /\ last' = Log("key", selected_idx, d.stop, d.play, FALSE,
                            IF waits /\ k \in {"f", "F"} THEN path ELSE NoPath,
                            IF waits /\ k \in {"f", "F"} /\ path # NoPath
                              THEN assign_file_msg(path, AUDIO_ENABLED) ELSE "")
     /\ UNCHANGED AUDIO_ENABLED

\* The channels that share the pad key "a".
Pads == {c \in Channels : c <= 1}

\* The channels after the user pulled every fader down and, in the assign view,
\* gave the pads the same sample and the same key.
Configured ==
  [c \in Channels |->
     IF c \in Pads THEN assign_key(assign_file(FadersDown[c], Kick, TRUE), "a")
     ELSE FadersDown[c]]

MainInit ==
  /\ channels = Configured
  /\ voices = [v \in Voices |-> Free]
  /\ now = 1
  /\ AUDIO_ENABLED = TRUE
  /\ InitMain
  /\ last = Log("init", NoChannel, {}, {}, FALSE, NoPath, "")

MainNext ==
  \/ \E jitter \in [Channels -> JitterSet] : MainTick(0, jitter)
  \/ \E k \in KeyInputs \cup {NoKey}, path \in Paths, new_key \in NewKeys :
       MainKey(k, path, new_key, 0)
  \/ \E v \in Voices : VoiceFinish(v)

MainSpec == MainInit /\ [][MainNext]_vars

\* ------------------------------------------------------- the loop over time
\* The configured channels after the user set both pads to GATE in the assign
\* view.
GatePads ==
  [c \in Channels |-> IF c \in Pads THEN toggle_mode(Configured[c]) ELSE Configured[c]]

\* The keys pressed: the pad key, the three view keys and the mode key.
LoopKeys == {"a", "KEY_F1", "KEY_F2", "KEY_F3", "t"}

\* The time one pass of the loop can take: time.sleep(0.01) is a lower bound.
Sleeps == 0 .. 1

LoopInit ==
  /\ channels = GatePads
  /\ voices = [v \in Voices |-> Free]
  /\ now = 0
  /\ AUDIO_ENABLED = TRUE
  /\ InitMain
  /\ last = Log("init", NoChannel, {}, {}, FALSE, NoPath, "")

LoopNext ==
  \/ \E dt \in Sleeps : MainTick(dt, [c \in Channels |-> 100])
  \/ \E k \in LoopKeys \cup {NoKey} : MainKey(k, NoPath, "ESC", 0)
  \/ \E v \in Voices : VoiceFinish(v)

LoopSpec == LoopInit /\ [][LoopNext]_vars

\* ------------------------------------------------------------------ claims
\* The operation that led to the next state is op, run on channel c.
Ran(op, c) == last'.op = op /\ last'.ch = c

\* The voices playing the Sound object of channel c.
VoicesOf(c, self, vs) == {v \in Voices : vs[v] = SoundOf(c, self)}

\* The handles tracked in a list of voices, and how often v occurs in it.
Handles(chs) == {chs[i] : i \in 1 .. Len(chs)}
Count(chs, v) == Cardinality({i \in 1 .. Len(chs) : chs[i] = v})

\* C1 - GATE timing: a trigger() of a GATE channel with a loaded sound at time
\* t0 records t0 and sets is_gated_playing; an update() at a time now with
\* now - t0 <= GATE_THRESHOLD leaves is_gated_playing true and calls no stop; an
\* update() with now - last_triggered_time > GATE_THRESHOLD calls stop on the
\* sound (no voice of it stays busy) and clears is_gated_playing; an update() of
\* a channel that is not sustaining calls no stop and leaves the flag false.
GateTiming ==
  [][\A c \in Channels :
       LET self == channels[c]
           gate == self.trigger_mode = "GATE" /\ self.sound # NoSound
       IN /\ (Ran("trigger", c) /\ gate)
               => /\ channels'[c].is_gated_playing
                  /\ channels'[c].last_triggered_time = now
          /\ (~Ran("trigger", c))
               => channels'[c].last_triggered_time = self.last_triggered_time
          /\ (Ran("update", c) /\ gate /\ self.is_gated_playing
                /\ now - self.last_triggered_time <= GATE_THRESHOLD)
               => /\ channels'[c].is_gated_playing
                  /\ c \notin last'.stop
                  /\ voices' = voices
          /\ (Ran("update", c) /\ gate /\ self.is_gated_playing
                /\ now - self.last_triggered_time > GATE_THRESHOLD)
               => /\ ~channels'[c].is_gated_playing
                  /\ c \in last'.stop
                  /\ VoicesOf(c, self, voices') = {}
          /\ (Ran("update", c) /\ gate /\ ~self.is_gated_playing)
               => /\ ~channels'[c].is_gated_playing
                  /\ c \notin last'.stop
                  /\ voices' = voices
    ]_vars

\* C1 witness: an update() has just expired a gate: it called stop, the flag is
\* down, and the threshold has passed since the last trigger.
GateTimingWitness ==
  \E c \in Channels :
    /\ last.op = "update" /\ last.ch = c /\ c \in last.stop /\ last.was_gated
    /\ channels[c].trigger_mode = "GATE"
    /\ ~channels[c].is_gated_playing
    /\ now - channels[c].last_triggered_time > GATE_THRESHOLD

\* C2 - RETRIGGER is monophonic: immediately after a trigger() of a RETRIGGER
\* channel with a loaded sound, playing_channels holds exactly one handle.
RetriggerOneHandle ==
  \A c \in Channels :
    (last.op = "trigger" /\ last.ch = c /\ channels[c].trigger_mode = "RETRIGGER"
       /\ channels[c].sound # NoSound)
      => Cardinality(Handles(channels[c].playing_channels)) = 1

\* C3 - ONESHOT is polyphonic: a trigger() of a ONESHOT channel with a loaded
\* sound while the mixer has a free voice adds one handle to playing_channels,
\* calls no stop and leaves every busy voice playing; and a handle leaves
\* playing_channels only in an update() of that channel, in which exactly the
\* handles whose voice is not busy are dropped.
OneshotPolyphonic ==
  [][\A c \in Channels :
       LET self == channels[c]
           chs == self.playing_channels
           chs2 == channels'[c].playing_channels
       IN /\ (Ran("trigger", c) /\ self.trigger_mode = "ONESHOT" /\ self.sound # NoSound
                /\ \E v \in Voices : ~get_busy(voices, v))
               => /\ Len(chs2) = Len(chs) + 1
                  /\ SubSeq(chs2, 1, Len(chs)) = chs
                  /\ get_busy(voices', chs2[Len(chs2)])
                  /\ ~get_busy(voices, chs2[Len(chs2)])
                  /\ c \notin last'.stop
                  /\ \A v \in Voices : get_busy(voices, v) => voices'[v] = voices[v]
          /\ (\E v \in Voices : Count(chs2, v) < Count(chs, v))
               => /\ Ran("update", c)
                  /\ \A v \in Voices :
                       Count(chs2, v) = IF get_busy(voices, v) THEN Count(chs, v) ELSE 0
    ]_vars

\* C3 witness: two ONESHOT triggers in a row have left two busy voices tracked.
OneshotPolyphonicWitness ==
  \E c \in Channels :
    /\ last.op = "trigger" /\ last.ch = c
    /\ channels[c].trigger_mode = "ONESHOT"
    /\ Len(channels[c].playing_channels) = 2
    /\ Cardinality(VoicesOf(c, channels[c], voices)) = 2

\* The cycle the claim states, and the cycle of list(TriggerMode).
ClaimedNext(m) ==
  CASE m = "ONESHOT" -> "RETRIGGER" [] m = "RETRIGGER" -> "GATE" [] m = "GATE" -> "ONESHOT"
EnumNext(m) ==
  CASE m = "ONESHOT" -> "GATE" [] m = "GATE" -> "RETRIGGER" [] m = "RETRIGGER" -> "ONESHOT"

\* C5 as stated - each toggle_mode() moves trigger_mode one step along
\* ONESHOT -> RETRIGGER -> GATE -> ONESHOT.
ModeCycleClaimed ==
  [][\A c \in Channels :
       Ran("toggle_mode", c) => channels'[c].trigger_mode = ClaimedNext(channels[c].trigger_mode)
    ]_vars

\* C5 amended - each toggle_mode() moves trigger_mode one step along
\* ONESHOT -> GATE -> RETRIGGER -> ONESHOT, and three calls return to the
\* starting mode.
ModeCycle ==
  /\ [][\A c \in Channels :
          Ran("toggle_mode", c) => channels'[c].trigger_mode = EnumNext(channels[c].trigger_mode)
       ]_vars
  /\ [](\A c \in Channels :
          toggle_mode(toggle_mode(toggle_mode(channels[c]))).trigger_mode
            = channels[c].trigger_mode)

\* C5 witness: a toggle_mode() has taken a channel to GATE.
ModeCycleWitness ==
  \E c \in Channels :
    last.op = "toggle_mode" /\ last.ch = c /\ channels[c].trigger_mode = "GATE"

\* C6 - leaving GATE while sustaining clears the gate: a toggle_mode() of a
\* channel whose is_gated_playing is true leaves it false, and an update() of a
\* channel whose is_gated_playing is false, at any time, calls no stop, changes
\* no voice and leaves the flag false.
ToggleClearsGate ==
  [][\A c \in Channels :
       /\ (Ran("toggle_mode", c) /\ channels[c].is_gated_playing)
            => ~channels'[c].is_gated_playing
       /\ (Ran("update", c) /\ ~channels[c].is_gated_playing)
            => /\ c \notin last'.stop
               /\ voices' = voices
               /\ ~channels'[c].is_gated_playing
    ]_vars

\* C6 witness: toggle_mode() has just run on a channel that was sustaining.
ToggleClearsGateWitness ==
  \E c \in Channels :
    /\ last.op = "toggle_mode" /\ last.ch = c /\ last.was_gated
    /\ channels[c].trigger_mode = "RETRIGGER"

\* C10 - a failed assign_file changes nothing: with a path that does not exist
\* it returns "File not found", with a file the mixer cannot load it returns an
\* audio error, and in both cases sound, name and file_path are as before.
AssignFailure ==
  [][\A c \in Channels :
       /\ (Ran("assign_file", c) /\ last'.path = Missing)
            => last'.msg = "File not found"
       /\ (Ran("assign_file", c) /\ last'.path = Corrupt /\ AUDIO_ENABLED)
            => last'.msg = "Audio Error"
       /\ (Ran("assign_file", c) /\ last'.msg \in {"File not found", "Audio Error"})
            => /\ channels'[c].sound = channels[c].sound
               /\ channels'[c].name = channels[c].name
               /\ channels'[c].file_path = channels[c].file_path
    ]_vars

\* C10 witness: assign_file has failed with "File not found" on a channel that
\* holds a sample from an earlier assign_file.
AssignFailureWitness ==
  \E c \in Channels :
    /\ last.op = "assign_file" /\ last.ch = c /\ last.msg = "File not found"
    /\ channels[c].name = "kick.wav" /\ channels[c].sound # NoSound

\* C7 - volume bound: in every reachable state each channel's volume is within
\* [0, 1], whatever deltas adjust_volume was called with.
VolumeBound == \A c \in Channels : 0 <= channels[c].volume /\ channels[c].volume <= Scale

\* C7 witness: adjust_volume has run with a delta below the range and the volume
\* sits at 0.
VolumeBoundWitness ==
  \E c \in Channels :
    last.op = "adjust_volume" /\ last.ch = c /\ channels[c].volume = 0

\* C8 - VU level bound: in every reachable state each channel's vu_level is
\* within [0, 1], for every jitter in [0.9, 1.0].
VuBound == \A c \in Channels : 0 <= channels[c].vu_level /\ channels[c].vu_level <= Scale

\* C8 witness: an update() of a playing channel at full volume has driven the
\* meter into the top tenth of its range.
VuBoundWitness ==
  \E c \in Channels :
    /\ last.op = "update" /\ last.ch = c
    /\ channels[c].playing_channels # <<>>
    /\ channels[c].volume = Scale
    /\ 10 * channels[c].vu_level > 9 * Scale

\* is_playing as update() computed it, read off the channel it left.
Sounding(self) ==
  \/ self.trigger_mode = "GATE" /\ self.is_gated_playing
  \/ self.trigger_mode # "GATE" /\ self.playing_channels # <<>>

\* C9 as stated - from one update() to the next, with no trigger (and no other
\* operation) between them, vu_level never increases.
VuNeverRisesBetweenTicks ==
  [][\A c \in Channels :
       (last.op = "update" /\ last.ch = c /\ Ran("update", c))
         => channels'[c].vu_level <= channels[c].vu_level
    ]_vars

\* C9 amended - over ticks in which the channel is not playing (GATE: not
\* sustaining; otherwise: no tracked voice is busy), vu_level never increases
\* and falls strictly while it is positive, so it reaches 0 after finitely many
\* ticks; and every update() leaves vu_level either at exactly 0 or at no less
\* than the snap epsilon 0.01.
VuDecay ==
  [][\A c \in Channels :
       LET vu == channels[c].vu_level
           vu2 == channels'[c].vu_level
       IN /\ (Ran("update", c) /\ ~Sounding(channels'[c]))
               => /\ vu2 <= vu
                  /\ vu > 0 => vu2 < vu
          /\ Ran("update", c) => (vu2 = 0 \/ vu2 * 100 >= Scale)
    ]_vars

\* C9 witness: after an update() the channel is not playing and its meter is
\* still above 0: it is decaying.
VuDecayWitness ==
  \E c \in Channels :
    /\ last.op = "update" /\ last.ch = c
    /\ ~Sounding(channels[c])
    /\ channels[c].vu_level > 0

\* The playback state of a channel.
Playback(self) ==
  <<self.playing_channels, self.last_triggered_time, self.is_gated_playing>>

\* The channels whose assigned_key is k.
Matching(chans, k) == {c \in Channels : chans[c].assigned_key = k}

\* The key handling of the main loop has run on key k in a view where pads fire.
PadKey(k) ==
  /\ pc = "key" /\ last'.op = "key" /\ key' = k /\ k # NoKey /\ pc' = "loop"
  /\ current_mode' \in {"VIEW_MIXER", "VIEW_METERS"}

GateFlagNeedsVoice ==
  [][\A c \in Channels :
       (Ran("trigger", c) /\ channels[c].trigger_mode = "GATE"
          /\ channels[c].sound # NoSound /\ ~channels[c].is_gated_playing
          /\ find_channel(voices) = NoVoice)
         => ~channels'[c].is_gated_playing
    ]_vars

\* C12 as stated - no finished handles after update: right after an update() of
\* a channel, in every trigger mode, every handle in its playing_channels is
\* busy in the mixer.
NoFinishedHandlesAfterUpdate ==
  \A c \in Channels :
    (last.op = "update" /\ last.ch = c)
      => \A v \in Handles(channels[c].playing_channels) : get_busy(voices, v)

\* C13 - gate refresh: a trigger() of a GATE channel that is sustaining sets
\* last_triggered_time to the current time and does nothing else (no play, no
\* stop, no voice changes, every other field of the channel as before); nothing
\* but a trigger() changes last_triggered_time; and an update() of a sustaining
\* gate keeps it exactly when the time since the most recent trigger is within
\* GATE_THRESHOLD, and stops it otherwise.
GateRefresh ==
  [][\A c \in Channels :
       LET self == channels[c]
           sustaining == self.trigger_mode = "GATE" /\ self.sound # NoSound
                           /\ self.is_gated_playing
           since == now - self.last_triggered_time
       IN /\ (Ran("trigger", c) /\ sustaining)
               => /\ channels'[c] = [self EXCEPT !.last_triggered_time = now]
                  /\ voices' = voices
                  /\ last'.play = {} /\ last'.stop = {}
          /\ (~Ran("trigger", c))
               => channels'[c].last_triggered_time = self.last_triggered_time
          /\ (Ran("update", c) /\ sustaining)
               => /\ channels'[c].is_gated_playing <=> since <= GATE_THRESHOLD
                  /\ c \in last'.stop <=> since > GATE_THRESHOLD
    ]_vars

\* C13 witness: a trigger() has just refreshed a sustaining gate, later than the
\* time the clock started at: no play call, the flag still up, the time recorded.
GateRefreshWitness ==
  \E c \in Channels :
    /\ last.op = "trigger" /\ last.ch = c /\ last.was_gated /\ last.play = {}
    /\ channels[c].trigger_mode = "GATE" /\ channels[c].is_gated_playing
    /\ channels[c].last_triggered_time = now /\ now > 1

\* C14 - trigger without a resource is a no-op: a trigger() of a channel with no
\* loaded sound, in any trigger mode, calls neither play nor stop, changes no
\* voice and leaves the channel (last_triggered_time, is_gated_playing,
\* playing_channels, vu_level and all else) as it was.
TriggerWithoutSound ==
  [][\A c \in Channels :
       (Ran("trigger", c) /\ channels[c].sound = NoSound)
         => /\ channels'[c] = channels[c]
            /\ voices' = voices
            /\ last'.play = {} /\ last'.stop = {}
    ]_vars

\* C14 witness: trigger() has just run on a GATE channel that was given a file
\* while audio is disabled, so it holds a path but no sound.
TriggerWithoutSoundWitness ==
  \E c \in Channels :
    /\ last.op = "trigger" /\ last.ch = c
    /\ channels[c].sound = NoSound /\ channels[c].file_path = Kick
    /\ channels[c].trigger_mode = "GATE"

\* C15 - no free voice is benign: when a pad key is handled while every voice
\* of the mixer is busy (and no matching RETRIGGER pad holds a voice that its
\* stop() would free), play() is called on the sound of every matching ONESHOT
\* or RETRIGGER channel, yields no handle, and nothing is added to
\* playing_channels; no voice changes, and the loop goes on to its next
\* iteration, where the tick updates every channel.
NoFreeVoiceBenign ==
  [][\A k \in KeyInputs :
       (/\ PadKey(k)
        /\ find_channel(voices) = NoVoice
        /\ \A b \in Matching(channels, k) :
             channels[b].trigger_mode = "RETRIGGER"
               => VoicesOf(b, channels[b], voices) = {})
         => /\ \A c \in Matching(channels, k) :
                 (channels[c].trigger_mode \in {"ONESHOT", "RETRIGGER"}
                    /\ channels[c].sound # NoSound)
                   => /\ c \in last'.play
                      /\ channels'[c].playing_channels = channels[c].playing_channels
            /\ voices' = voices
            /\ pc' = "loop"
    ]_vars

\* C15 witness: the pad key "a" has just been handled, play() was called on the
\* sound of a RETRIGGER pad, every voice is busy with another sound, and the pad
\* tracks no handle.
NoFreeVoiceBenignWitness ==
  \E c \in Matching(channels, "a") :
    /\ last.op = "key" /\ key = "a" /\ pc = "loop"
    /\ c \in last.play /\ c \in last.stop
    /\ channels[c].trigger_mode = "RETRIGGER"
    /\ channels[c].playing_channels = <<>>
    /\ find_channel(voices) = NoVoice
    /\ VoicesOf(c, channels[c], voices) = {}

\* The gate of channel c is sustaining.
Sustaining(c) == channels[c].trigger_mode = "GATE" /\ channels[c].is_gated_playing

\* An update() has just expired the gate of channel c: it called stop on the
\* channel's sound and cleared the flag.
Released(c) ==
  /\ last.op = "update" /\ last.ch = c /\ c \in last.stop
  /\ ~channels[c].is_gated_playing

\* A trigger has just reached channel c.
Triggered(c) == last.op = "trigger" /\ last.ch = c

GateExpiryStopsVoice ==
  [][\A c \in Channels :
       (Ran("update", c) /\ Sustaining(c) /\ ~channels'[c].is_gated_playing)
         => VoicesFrom(c, voices') = {}
    ]_vars

\* C18 - gate flag only in GATE mode: in every reachable state, a channel whose
\* is_gated_playing is true has trigger_mode GATE.
GateFlagOnlyInGate ==
  \A c \in Channels : channels[c].is_gated_playing => channels[c].trigger_mode = "GATE"

\* C18 witness: toggle_mode() has just taken a sustaining channel out of GATE
\* mode, after assign_file replaced its sound; its voice is still busy.
GateFlagOnlyInGateWitness ==
  \E c \in UnderTest :
    /\ last.op = "toggle_mode" /\ last.ch = c /\ last.was_gated
    /\ channels[c].trigger_mode = "RETRIGGER" /\ ~channels[c].is_gated_playing
    /\ channels[c].sound > 1
    /\ VoicesFrom(c, voices) # {}

\* The step is the update pass at the top of a loop iteration.
TickStep == pc = "loop" /\ pc' = "key"

\* The update pass of this step finds the gate of channel c past its threshold.
Overdue(c) ==
  /\ channels[c].trigger_mode = "GATE" /\ channels[c].is_gated_playing
  /\ channels[c].sound # NoSound
  /\ now' - channels[c].last_triggered_time > GATE_THRESHOLD

\* C19 - update precedes the key in each loop iteration: every iteration starts
\* with the update pass and the key is handled only after it; the pass expires
\* every gate past its threshold (stop called, flag cleared); so when a pad key
\* is handled, a matching GATE channel whose flag is up is within its threshold
\* and is only refreshed, and one whose flag is down (expired in this
\* iteration's pass included) starts a new episode with a play call; either
\* way it is sustaining from the current time afterwards.
UpdateBeforeKey ==
  [][/\ (pc = "loop" /\ pc' # "loop") => (pc' = "key" /\ last'.op = "tick")
     /\ last'.op = "key" => pc = "key"
     /\ \A c \in Channels :
          (TickStep /\ Overdue(c)) => (c \in last'.stop /\ ~channels'[c].is_gated_playing)
     /\ \A k \in LoopKeys : PadKey(k) =>
          \A c \in Matching(channels, k) :
            (channels[c].trigger_mode = "GATE" /\ channels[c].sound # NoSound)
              => /\ channels[c].is_gated_playing
                      => /\ now - channels[c].last_triggered_time <= GATE_THRESHOLD
                         /\ c \notin last'.play
                 /\ ~channels[c].is_gated_playing => c \in last'.play
                 /\ channels'[c].is_gated_playing
                 /\ channels'[c].last_triggered_time = now
    ]_vars

\* C19 witness: in the mixer view the update pass of an iteration has just
\* expired the gate of a pad with key "a" (stop called, flag down, threshold
\* exceeded) and the iteration is about to handle its key.
UpdateBeforeKeyWitness ==
  \E c \in Matching(channels, "a") :
    /\ pc = "key" /\ last.op = "tick" /\ c \in last.stop
    /\ current_mode = "VIEW_MIXER"
    /\ channels[c].trigger_mode = "GATE" /\ ~channels[c].is_gated_playing
    /\ now - channels[c].last_triggered_time > GATE_THRESHOLD

\* C20 - pads fire only in the mixer and meter views: a key handled while the
\* view is CHANNEL_ASSIGN calls neither play nor stop, changes no voice and
\* leaves playing_channels and last_triggered_time of every channel as they
\* were; the update pass still runs in that view and expires every gate past
\* its threshold.
PadsOnlyInPlayViews ==
  [][/\ (pc = "key" /\ last'.op = "key" /\ current_mode' = "CHANNEL_ASSIGN")
          => /\ last'.play = {} /\ last'.stop = {}
             /\ voices' = voices
             /\ \A c \in Channels :
                  /\ channels'[c].playing_channels = channels[c].playing_channels
                  /\ channels'[c].last_triggered_time = channels[c].last_triggered_time
     /\ \A c \in Channels :
          (TickStep /\ current_mode = "CHANNEL_ASSIGN" /\ Overdue(c))
            => (c \in last'.stop /\ ~channels'[c].is_gated_playing)
    ]_vars

\* C20 witness: the pad key "a" has just been handled in the assign view while
\* the gate of a pad with that key is sustaining from an earlier trigger: its
\* last_triggered_time is in the past.
PadsOnlyInPlayViewsWitness ==
  \E c \in Matching(channels, "a") :
    /\ last.op = "key" /\ key = "a" /\ pc = "loop"
    /\ current_mode = "CHANNEL_ASSIGN"
    /\ channels[c].is_gated_playing
    /\ channels[c].last_triggered_time < now

====
